---- MODULE Spec2Model ----
(***************************************************************************)
(* The timing and session-state engine of Forest Focus: the usePomodoro    *)
(* hook (src/pomodoro_timer_frontend/src/hooks/usePomodoro.js) together    *)
(* with the completion listener of App.js.                                 *)
(*                                                                         *)
(* React state (useState) and refs (useRef) are the variables.  A handler  *)
(* and the render that applies its queued state updates are one step.  An  *)
(* updater function passed to a state setter is evaluated when React       *)
(* processes the update queue; a state setter called from inside an        *)
(* updater is queued behind that updater, so its value is the one that     *)
(* stands after the render.                                                *)
(*                                                                         *)
(* Times are in milliseconds.  lastPerf holds the age of the anchor, that  *)
(* is performance.now() - lastPerf.current, which is all tick reads.       *)
(***************************************************************************)
EXTENDS Integers, Sequences, FiniteSets, TLC

VARIABLES
    persisted,      \* the record loadState() returned at construction
    loadedAt,       \* Date.now() at construction
    mounted,        \* the mount effects have run
    focusMinutes, breakMinutes, mode, isRunning, remainingMs, sessionCount,
    species,        \* the plant species, fixed at construction
    store,          \* what localStorage holds under KEY; its timestamps are
                    \* kept as differences from the Date.now() of the write
                    \* (of construction, for the value found there)
    audio,          \* the sound preferences held by useAudio
    audioMounted,   \* useAudio's persist effect has run once
    rafId,          \* rafId.current is non-null
    frames,         \* frame callbacks the browser holds pending
    ticking,        \* ticking.current
    lastPerf,       \* None (null), or Some(age of lastPerf.current)
    lastOp,         \* the handler that ran last
    effects         \* what that handler did to the outside, in order

vars == <<persisted, loadedAt, mounted, focusMinutes, breakMinutes, mode,
          isRunning, remainingMs, sessionCount, species, store, audio,
          audioMounted, rafId, frames, ticking, lastPerf, lastOp, effects>>

engine == <<focusMinutes, breakMinutes, mode, isRunning, remainingMs, sessionCount>>
clock == <<rafId, frames, ticking, lastPerf>>

----------------------------------------------------------------------------
\* Bounds of the model

\* ticks stop once this many focus sessions have been counted
MaxSessions == 3
\* ticks are followed only while at most this many minutes remain
MaxCountdownMin == 6
\* minutes that may pass between two reads of performance.now()
MaxElapsedMin == 3
\* Date.now() at construction is Epoch or a minute later
Epoch == 1000000

----------------------------------------------------------------------------
\* Program constants

DEFAULT_FOCUS == 25
DEFAULT_BREAK == 5
minFocus == 5
maxFocus == 120
minBreak == 1
maxBreak == 60
MsPerMinute == 60000

----------------------------------------------------------------------------
\* JavaScript values

\* undefined / null, and a present value
None == <<>>
Some(v) == <<v>>

\* a ?? d
Coalesce(a, d) == IF a = None THEN d ELSE a[1]

\* truthiness of an optional boolean and of an optional number
TruthyBool(a) == a # None /\ a[1]
TruthyNum(a) == a # None /\ a[1] # 0

\* a number, and NaN
Num(v) == <<"num", v>>
NaN == <<"nan", 0>>
\* a value that is not a number at all
Text == <<"str", 0>>
IsFinite(n) == n[1] = "num"

Max(a, b) == IF a >= b THEN a ELSE b
Min(a, b) == IF a <= b THEN a ELSE b

\* Math.round(m * 60 * 1000), on whole minutes
minutesToMs(m) == m * 60 * 1000

\* Math.max(min, Math.min(max, Number.isFinite(n) ? n : min))
\* mutant: no upper bound
clampFromBelow(n, min, max) == Max(min, IF IsFinite(n) THEN n[2] ELSE min)

clamp(n, min, max) == Max(min, Min(max, IF IsFinite(n) THEN n[2] ELSE min))

----------------------------------------------------------------------------
\* The persisted record

Modes == {"focus", "break"}

\* loadState() returned null, or a record without any of the engine's fields
NoRecord ==
    [focusMinutes |-> None, breakMinutes |-> None, mode |-> None,
     isRunning |-> None, remainingMs |-> None, endAt |-> None,
     sessionCount |-> None, species |-> None, savedAt |-> None,
     soundMuted |-> None, volume |-> None, ambientOn |-> None]

AllSpecies == {"fern", "sapling", "sprout", "bamboo"}

\* the record the save effect writes; endAt is null unless running
Saved(f, b, m, run, rem, endAt, cnt, sp, savedAt) ==
    [focusMinutes |-> Some(f), breakMinutes |-> Some(b), mode |-> Some(m),
     isRunning |-> Some(run), remainingMs |-> Some(rem), endAt |-> endAt,
     sessionCount |-> Some(cnt), species |-> Some(sp), savedAt |-> Some(savedAt),
     soundMuted |-> None, volume |-> None, ambientOn |-> None]

\* the record without one of its fields
Without(rec, field) == [rec EXCEPT ![field] = None]

\* Date.now() at construction
NowValues == {Epoch, Epoch + MsPerMinute}

\* endAt - Date.now() of a record written while running: the interval ended
\* while the page was closed, ends now, or ends later; more than the stored
\* remainingMs when the system clock was set back since the save
EndOffsets == {-10000, 0, 5000, 120000}
StoredRemaining == {20000, 180000}

\* a record saved a minute before the page was closed
IdleRecord(now) ==
    Saved(6, 2, "break", FALSE, 20000, None, 1, "bamboo", now - MsPerMinute)

\* fields the engine reads
EngineFields ==
    {"focusMinutes", "breakMinutes", "mode", "isRunning", "remainingMs",
     "endAt", "sessionCount", "species"}

\* durations stored before the allowed ranges changed
StaleDurations == {<<3, 90>>}

\* a stored species that is none of the four
UnknownSpecies == {"oak"}

PersistedRecords(now) ==
    {NoRecord}
    \cup {Saved(minFocus, minBreak, m, FALSE, rem, None, 1, "fern", now - MsPerMinute) :
            m \in Modes, rem \in {0, 20000, 60000}}
    \cup {Saved(minFocus, minBreak, m, TRUE, rem, Some(now + off), 1, "fern",
                now + off - rem) :
            m \in Modes, rem \in StoredRemaining, off \in EndOffsets}
    \cup {Without(IdleRecord(now), field) : field \in EngineFields}
    \cup {Without(Saved(6, 2, "break", TRUE, 180000, Some(now + 120000), 1,
                        "bamboo", now - MsPerMinute), field) :
            field \in {"endAt", "remainingMs"}}
    \cup {Saved(d[1], d[2], "focus", FALSE, 20000, None, 1, "sprout",
                now - MsPerMinute) : d \in StaleDurations}
    \cup {[IdleRecord(now) EXCEPT !.species = Some(sp)] : sp \in UnknownSpecies}
    \cup {[IdleRecord(now) EXCEPT !.soundMuted = Some(TRUE), !.volume = Some(30),
                                  !.ambientOn = Some(TRUE)]}

\* What localStorage.getItem(KEY) may return at construction: nothing, text
\* that JSON.parse rejects, or the text of a record
Absent == <<"absent">>
Malformed == <<"malformed">>
Json(rec) == <<"json", rec>>
\* storage that throws on every access (disabled, or over quota)
Unavailable == <<"unavailable">>

RawValues(now) == {Absent, Malformed} \cup {Json(rec) : rec \in PersistedRecords(now)}


\* loadState: null (no field present) when nothing is stored, when getItem
\* throws or when the parse throws
loadState(raw) == IF raw[1] = "json" THEN raw[2] ELSE NoRecord

\* the instants of construction each stored value is loaded at: a record of a
\* running timer at each of them, the others at the first
LoadedValues ==
    {<<now, raw>> \in NowValues \X UNION {RawValues(now) : now \in NowValues} :
        /\ raw \in RawValues(now)
        /\ now = Epoch \/ TruthyBool(loadState(raw).isRunning)}

\* saveState: { ...(loadState() || {}), ...patch } written back; patch holds
\* every field of the record, so each of them replaces the stored one
saveState(raw, patch) ==
    LET current == loadState(raw)
    IN  IF raw[1] = "unavailable"
        THEN raw    \* setItem throws and the catch ignores it
        ELSE Json([field \in DOMAIN current |->
                     IF field \in DOMAIN patch THEN patch[field] ELSE current[field]])

\* a timestamp of the record as its difference from Date.now() = now
Relative(rec, now) ==
    [rec EXCEPT !.endAt = IF @ = None THEN None ELSE Some(@[1] - now),
                !.savedAt = IF @ = None THEN None ELSE Some(@[1] - now)]

RelativeRaw(raw, now) ==
    IF raw[1] = "json" THEN Json(Relative(raw[2], now)) ELSE raw

\* the loads after which storage stops working: nothing stored, and a timer
\* that was running in either mode
FailingLoads ==
    {<<Epoch, Absent>>}
    \cup {<<Epoch, Json(Saved(minFocus, minBreak, m, TRUE, 180000,
                              Some(Epoch + 120000), 1, "fern", Epoch - 60000))>> :
            m \in Modes}

\* what the store is once the engine is constructed
StoreAfterLoad(loaded) ==
    {RelativeRaw(loaded[2], loaded[1])}
    \cup (IF loaded \in FailingLoads THEN {Unavailable} ELSE {})

----------------------------------------------------------------------------
\* Construction: the useState initialisers of the first render

InitialFocusMinutes(p) ==
    clamp(Num(Coalesce(p.focusMinutes, DEFAULT_FOCUS)), minFocus, maxFocus)

InitialBreakMinutes(p) ==
    clamp(Num(Coalesce(p.breakMinutes, DEFAULT_BREAK)), minBreak, maxBreak)

\* mutant: a record without a mode is taken to be in a break
InitialModeBreak(p) == Coalesce(p.mode, "break")

InitialMode(p) == Coalesce(p.mode, "focus")

InitialIsRunning(p) == Coalesce(p.isRunning, FALSE)

InitialSessionCount(p) == Coalesce(p.sessionCount, 0)

\* mutant: the stored remainingMs is adopted without looking at the clock
InitialRemainingMsStored(p, now) ==
    Coalesce(p.remainingMs,
             minutesToMs(IF InitialMode(p) = "focus"
                         THEN InitialFocusMinutes(p)
                         ELSE InitialBreakMinutes(p)))

\* the initialiser of remainingMs
InitialRemainingMs(p, now) ==
    LET full == minutesToMs(IF InitialMode(p) = "focus"
                            THEN InitialFocusMinutes(p)
                            ELSE InitialBreakMinutes(p))
    IN  IF TruthyBool(p.isRunning) /\ TruthyNum(p.endAt)
        THEN LET est == Max(0, p.endAt[1] - now)
                 stored == Coalesce(p.remainingMs, full)
             IN  Min(Max(est, 0), Max(stored, est))
        ELSE Coalesce(p.remainingMs, full)

\* mutant: the species is drawn anew at every construction
pickSpeciesAnew(sp) == AllSpecies

\* the volume useAudio starts with, in hundredths
DefaultVolume == 60

\* the useState initialisers of useAudio
InitialAudio(p) ==
    [soundMuted |-> Coalesce(p.soundMuted, FALSE),
     volume |-> Coalesce(p.volume, DefaultVolume),
     ambientOn |-> Coalesce(p.ambientOn, FALSE)]

\* pickSpecies: the persisted species when it is one of the four, else one of
\* them at random
pickSpecies(sp) ==
    IF sp # None /\ sp[1] \in AllSpecies THEN {sp[1]} ELSE AllSpecies

\* totalMs of the current render
totalMs == minutesToMs(IF mode = "focus" THEN focusMinutes ELSE breakMinutes)

Init ==
    \E loaded \in LoadedValues :
      LET now == loaded[1]
          raw == loaded[2]
          p == loadState(raw) IN
        /\ store \in StoreAfterLoad(loaded)
        /\ species \in pickSpecies(p.species)
        /\ audio = InitialAudio(p)
        /\ audioMounted = FALSE
        /\ persisted = p
        /\ loadedAt = now
        /\ mounted = FALSE
        /\ focusMinutes = InitialFocusMinutes(p)
        /\ breakMinutes = InitialBreakMinutes(p)
        /\ mode = InitialMode(p)
        /\ isRunning = InitialIsRunning(p)
        /\ remainingMs = InitialRemainingMs(p, now)
        /\ sessionCount = InitialSessionCount(p)
        /\ rafId = FALSE
        /\ frames = 0
        /\ ticking = FALSE
        /\ lastPerf = None
        /\ lastOp = "init"
        /\ effects = <<>>

----------------------------------------------------------------------------
\* Persistence

\* mutant: the record is written without sessionCount
stateRecordWithoutCount(f, b, run, m, rem, cnt, sp, gap) ==
    [focusMinutes |-> Some(f), breakMinutes |-> Some(b), isRunning |-> Some(run),
     mode |-> Some(m), remainingMs |-> Some(rem),
     endAt |-> IF run THEN Some((0 - gap) + rem) ELSE None,
     sessionCount |-> None, species |-> Some(sp), savedAt |-> Some(0)]

\* mutant: endAt is written whether running or not
stateRecordEndAtAlways(f, b, run, m, rem, cnt, sp, gap) ==
    [focusMinutes |-> Some(f), breakMinutes |-> Some(b), isRunning |-> Some(run),
     mode |-> Some(m), remainingMs |-> Some(rem),
     endAt |-> Some((0 - gap) + rem),
     sessionCount |-> Some(cnt), species |-> Some(sp), savedAt |-> Some(0)]

\* the state object of the save effect: endAt is Date.now() + remainingMs and
\* savedAt is a second read of Date.now(), gap milliseconds after the first.
\* The second read is the origin of the timestamps: savedAt is 0.
stateRecord(f, b, run, m, rem, cnt, sp, gap) ==
    [focusMinutes |-> Some(f), breakMinutes |-> Some(b), isRunning |-> Some(run),
     mode |-> Some(m), remainingMs |-> Some(rem),
     endAt |-> IF run THEN Some((0 - gap) + rem) ELSE None,
     sessionCount |-> Some(cnt), species |-> Some(sp), savedAt |-> Some(0)]

\* milliseconds Date.now() may move on between the two reads of one save
ClockSteps == {0, 1}

\* the save effect after a render: it runs when one of its dependencies changed
saveEffect ==
    \E gap \in ClockSteps :
        store' = IF <<engine, species>>' # <<engine, species>>
                 THEN saveState(store, stateRecord(focusMinutes', breakMinutes',
                                                   isRunning', mode', remainingMs',
                                                   sessionCount', species', gap))
                 ELSE store

\* the save effect after the first render
saveOnMount ==
    \E gap \in ClockSteps :
        store' = saveState(store, stateRecord(focusMinutes', breakMinutes',
                                              isRunning', mode', remainingMs',
                                              sessionCount', species', gap))

----------------------------------------------------------------------------
\* The frame loop

\* mutant: no look at the ticking flag
startTickingAlways ==
    /\ ticking' = TRUE
    /\ lastPerf' = Some(0)
    /\ rafId' = TRUE
    /\ frames' = frames + 1

\* startTicking: nothing when already ticking
startTicking ==
    IF ticking
    THEN UNCHANGED clock
    ELSE /\ ticking' = TRUE
         /\ lastPerf' = Some(0)
         /\ rafId' = TRUE
         /\ frames' = frames + 1

startTickingEffects == IF ticking THEN <<>> ELSE <<"raf">>

\* mutant: the frame is cancelled but the ticking flag stays
stopTickingCancelOnly ==
    /\ ticking' = ticking
    /\ frames' = IF rafId THEN frames - 1 ELSE frames
    /\ rafId' = FALSE
    /\ lastPerf' = None

\* stopTicking: cancels the frame rafId names
stopTicking ==
    /\ ticking' = FALSE
    /\ frames' = IF rafId THEN frames - 1 ELSE frames
    /\ rafId' = FALSE
    /\ lastPerf' = None

stopTickingEffects == IF rafId THEN <<"cancel">> ELSE <<>>

\* the completion listener of App: e.detail?.justCompleted || 'focus', then
\* playChime(type === 'focus' ? 'focus' : 'break')
onSessionEnd(justCompleted) == IF justCompleted = "focus" THEN "focus" ELSE "break"

\* handleSessionComplete as tick holds it: tick is memoised with no
\* dependencies, so it calls the handleSessionComplete of the first render,
\* whose mode, breakMinutes and focusMinutes are those of construction
handleSessionComplete ==
    LET mode0 == InitialMode(persisted)
        justCompleted == IF mode0 = "focus" THEN "focus" ELSE "break"
    IN  IF mode0 = "focus"
        THEN [notify |-> onSessionEnd(justCompleted),
              sessionCount |-> sessionCount + 1,
              mode |-> "break",
              remainingMs |-> minutesToMs(InitialBreakMinutes(persisted))]
        ELSE [notify |-> onSessionEnd(justCompleted),
              sessionCount |-> sessionCount,
              mode |-> "focus",
              remainingMs |-> minutesToMs(InitialFocusMinutes(persisted))]

\* mutant: the guard prevMs > 0 is dropped
sessionEndsAtZero(prevMs, next) == next = 0

\* next === 0 && prevMs > 0
sessionEnds(prevMs, next) == next = 0 /\ prevMs > 0

\* now - (lastPerf.current ?? now)
delta == IF lastPerf = None THEN 0 ELSE lastPerf[1]

\* When React evaluates the updater tick queues: inside the setRemainingMs
\* call (a synchronous flush), or in the render after tick has returned
\* (batched updates); the repository does not fix which.
FlushModes == {"sync", "batched"}

tickEffects(flush, notes) ==
    IF flush = "sync" THEN notes \o <<"raf">> ELSE <<"raf">> \o notes

\* The frame callback
tick ==
    /\ mounted
    /\ frames > 0
    /\ sessionCount < MaxSessions
    /\ remainingMs <= MaxCountdownMin * MsPerMinute
    /\ lastOp' = "tick"
    /\ UNCHANGED <<persisted, loadedAt, species, audio, audioMounted, mounted, focusMinutes, breakMinutes, isRunning>>
    /\ IF ~ticking
       THEN /\ frames' = frames - 1
            /\ effects' = <<>>
            /\ UNCHANGED <<mode, remainingMs, sessionCount, rafId, ticking, lastPerf>>
       ELSE LET prevMs == remainingMs
                next == Max(0, prevMs - delta)
                done == handleSessionComplete
            IN  /\ lastPerf' = Some(0)
                /\ ticking' = ticking
                /\ rafId' = TRUE
                /\ frames' = (frames - 1) + 1
                /\ IF sessionEnds(prevMs, next)
                   THEN /\ remainingMs' = done.remainingMs
                        /\ mode' = done.mode
                        /\ sessionCount' = done.sessionCount
                        /\ \E flush \in FlushModes :
                              effects' = tickEffects(flush, <<done.notify>>)
                   ELSE /\ remainingMs' = next
                        /\ UNCHANGED <<mode, sessionCount>>
                        /\ effects' = <<"raf">>
    /\ saveEffect

\* mutant: the mount effect does not resume
mountEffectIdle ==
    /\ ~mounted
    /\ mounted' = TRUE
    /\ lastOp' = "mount"
    /\ effects' = <<>>
    /\ UNCHANGED <<persisted, loadedAt, species, audio, audioMounted, engine, clock>>
    /\ saveOnMount

\* The mount effect that keeps a persisted running session running
\* mutant: the mount effect looks at what storage holds now
mountEffectFromStore ==
    /\ ~mounted
    /\ mounted' = TRUE
    /\ lastOp' = "mount"
    /\ UNCHANGED <<persisted, loadedAt, species, audio, audioMounted, focusMinutes, breakMinutes, mode,
                   remainingMs, sessionCount>>
    /\ IF TruthyBool(loadState(store).isRunning) /\ TruthyNum(persisted.endAt)
          /\ remainingMs > 0
       THEN /\ isRunning' = TRUE
            /\ startTicking
            /\ effects' = startTickingEffects
       ELSE /\ UNCHANGED <<isRunning, clock>>
            /\ effects' = <<>>
    /\ saveOnMount

mountEffect ==
    /\ ~mounted
    /\ mounted' = TRUE
    /\ lastOp' = "mount"
    /\ UNCHANGED <<persisted, loadedAt, species, audio, audioMounted, focusMinutes, breakMinutes, mode,
                   remainingMs, sessionCount>>
    /\ IF TruthyBool(persisted.isRunning) /\ TruthyNum(persisted.endAt)
          /\ remainingMs > 0
       THEN /\ isRunning' = TRUE
            /\ startTicking
            /\ effects' = startTickingEffects
       ELSE /\ UNCHANGED <<isRunning, clock>>
            /\ effects' = <<>>
    /\ saveOnMount

\* mutant: the elapsed-time reference is left where it was
onVisibilityKeepsAnchor ==
    /\ mounted
    /\ lastOp' = "visibility"
    /\ effects' = <<>>
    /\ UNCHANGED <<persisted, loadedAt, species, audio, audioMounted, mounted, engine, clock>>
    /\ saveEffect

\* visibilitychange
onVisibility ==
    /\ mounted
    /\ lastPerf' = Some(0)
    /\ lastOp' = "visibility"
    /\ effects' = <<>>
    /\ UNCHANGED <<persisted, loadedAt, species, audio, audioMounted, mounted, engine, rafId, frames, ticking>>
    /\ saveEffect

\* A minute passes on performance.now()
Advance ==
    /\ mounted
    /\ lastPerf # None
    /\ lastPerf[1] + MsPerMinute <= MaxElapsedMin * MsPerMinute
    /\ lastPerf' = Some(lastPerf[1] + MsPerMinute)
    /\ store' = store
    /\ lastOp' = "advance"
    /\ effects' = <<>>
    /\ UNCHANGED <<persisted, loadedAt, species, audio, audioMounted, mounted, engine, rafId, frames, ticking>>

----------------------------------------------------------------------------
\* Controls

\* mutant: start does not refill an ended interval
startKeepsRemaining ==
    /\ mounted
    /\ isRunning' = TRUE
    /\ startTicking
    /\ lastOp' = "start"
    /\ effects' = startTickingEffects
    /\ UNCHANGED <<persisted, loadedAt, species, audio, audioMounted, mounted, focusMinutes, breakMinutes,
                   mode, remainingMs, sessionCount>>
    /\ saveEffect

\* mutant: the frame loop is not started
startWithoutLoop ==
    /\ mounted
    /\ remainingMs' = (IF remainingMs <= 0 THEN totalMs ELSE remainingMs)
    /\ isRunning' = TRUE
    /\ lastOp' = "start"
    /\ effects' = <<>>
    /\ UNCHANGED <<persisted, loadedAt, species, audio, audioMounted, mounted, focusMinutes, breakMinutes,
                   mode, sessionCount, clock>>
    /\ saveEffect

start ==
    /\ mounted
    /\ remainingMs' = (IF remainingMs <= 0 THEN totalMs ELSE remainingMs)
    /\ isRunning' = TRUE
    /\ startTicking
    /\ lastOp' = "start"
    /\ effects' = startTickingEffects
    /\ UNCHANGED <<persisted, loadedAt, species, audio, audioMounted, mounted, focusMinutes, breakMinutes,
                   mode, sessionCount>>
    /\ saveEffect

\* mutant: pause toggles
pauseToggles ==
    /\ mounted
    /\ isRunning' = ~isRunning
    /\ stopTicking
    /\ lastOp' = "pause"
    /\ effects' = stopTickingEffects
    /\ UNCHANGED <<persisted, loadedAt, species, audio, audioMounted, mounted, focusMinutes, breakMinutes,
                   mode, remainingMs, sessionCount>>
    /\ saveEffect

pause ==
    /\ mounted
    /\ isRunning' = FALSE
    /\ stopTicking
    /\ lastOp' = "pause"
    /\ effects' = stopTickingEffects
    /\ UNCHANGED <<persisted, loadedAt, species, audio, audioMounted, mounted, focusMinutes, breakMinutes,
                   mode, remainingMs, sessionCount>>
    /\ saveEffect

\* mutant: the elapsed-time reference is not taken anew
resumeCatchesUp ==
    /\ mounted
    /\ isRunning' = TRUE
    /\ IF ticking
       THEN UNCHANGED clock
       ELSE /\ ticking' = TRUE
            /\ rafId' = TRUE
            /\ frames' = frames + 1
            /\ UNCHANGED lastPerf
    /\ lastOp' = "resume"
    /\ effects' = startTickingEffects
    /\ UNCHANGED <<persisted, loadedAt, species, audio, audioMounted, mounted, focusMinutes, breakMinutes,
                   mode, remainingMs, sessionCount>>
    /\ saveEffect

resume ==
    /\ mounted
    /\ isRunning' = TRUE
    /\ startTicking
    /\ lastOp' = "resume"
    /\ effects' = startTickingEffects
    /\ UNCHANGED <<persisted, loadedAt, species, audio, audioMounted, mounted, focusMinutes, breakMinutes,
                   mode, remainingMs, sessionCount>>
    /\ saveEffect

\* mutant: the frame loop is left as it is
resetKeepsTicking ==
    /\ mounted
    /\ isRunning' = FALSE
    /\ remainingMs' = totalMs
    /\ lastOp' = "reset"
    /\ effects' = <<>>
    /\ UNCHANGED <<persisted, loadedAt, species, audio, audioMounted, mounted, focusMinutes, breakMinutes,
                   mode, sessionCount, clock>>
    /\ saveEffect

reset ==
    /\ mounted
    /\ isRunning' = FALSE
    /\ stopTicking
    /\ remainingMs' = totalMs
    /\ lastOp' = "reset"
    /\ effects' = stopTickingEffects
    /\ UNCHANGED <<persisted, loadedAt, species, audio, audioMounted, mounted, focusMinutes, breakMinutes,
                   mode, sessionCount>>
    /\ saveEffect

\* what a caller may pass to setDurations
DurationInputs == {<<Num(4), Num(61)>>, <<NaN, Text>>, <<Num(6), Num(2)>>}

\* mutant: the remaining time is recomputed while running too
setDurationsRefills(focusM, breakM) ==
    LET f == clamp(focusM, minFocus, maxFocus)
        b == clamp(breakM, minBreak, maxBreak)
    IN  /\ mounted
        /\ focusMinutes' = f
        /\ breakMinutes' = b
        /\ remainingMs' = minutesToMs(IF mode = "focus" THEN f ELSE b)
        /\ lastOp' = "setDurations"
        /\ effects' = <<>>
        /\ UNCHANGED <<persisted, loadedAt, species, audio, audioMounted, mounted, mode, isRunning,
                       sessionCount, clock>>
        /\ saveEffect

setDurations(focusM, breakM) ==
    LET f == clamp(focusM, minFocus, maxFocus)
        b == clamp(breakM, minBreak, maxBreak)
    IN  /\ mounted
        /\ focusMinutes' = f
        /\ breakMinutes' = b
        /\ remainingMs' = (IF ~isRunning
                           THEN minutesToMs(IF mode = "focus" THEN f ELSE b)
                           ELSE remainingMs)
        /\ lastOp' = "setDurations"
        /\ effects' = <<>>
        /\ UNCHANGED <<persisted, loadedAt, species, audio, audioMounted, mounted, mode, isRunning,
                       sessionCount, clock>>
        /\ saveEffect

----------------------------------------------------------------------------
\* The sound preferences (useAudio)

\* mutant: the preferences are written as the whole record
audioPatchAlone(raw, a) ==
    [NoRecord EXCEPT !.soundMuted = Some(a.soundMuted),
                     !.volume = Some(a.volume),
                     !.ambientOn = Some(a.ambientOn)]

\* { ...(loadState() || {}), soundMuted, volume, ambientOn }
audioPatch(raw, a) ==
    [loadState(raw) EXCEPT !.soundMuted = Some(a.soundMuted),
                           !.volume = Some(a.volume),
                           !.ambientOn = Some(a.ambientOn)]

\* the persist effect of useAudio after a render that changed a preference
audioEffect ==
    store' = IF audio' # audio
             THEN saveState(store, audioPatch(store, audio'))
             ELSE store

\* the persist effect of useAudio after the first render; useAudio is called
\* after usePomodoro, so its effects run after the engine's
audioMountEffect ==
    /\ mounted /\ ~audioMounted
    /\ audioMounted' = TRUE
    /\ store' = saveState(store, audioPatch(store, audio))
    /\ lastOp' = "audioMount"
    /\ effects' = <<>>
    /\ UNCHANGED <<persisted, loadedAt, species, mounted, engine, clock, audio>>

mute ==
    /\ audioMounted
    /\ audio' = [audio EXCEPT !.soundMuted = TRUE]
    /\ audioEffect
    /\ lastOp' = "mute"
    /\ effects' = <<>>
    /\ UNCHANGED <<persisted, loadedAt, species, mounted, engine, clock, audioMounted>>

unmute ==
    /\ audioMounted
    /\ audio' = [audio EXCEPT !.soundMuted = FALSE]
    /\ audioEffect
    /\ lastOp' = "unmute"
    /\ effects' = <<>>
    /\ UNCHANGED <<persisted, loadedAt, species, mounted, engine, clock, audioMounted>>

\* what a caller may pass to setVolume, in hundredths
VolumeInputs == {30, 150}

setVolume(v) ==
    /\ audioMounted
    /\ audio' = [audio EXCEPT !.volume = Max(0, Min(100, v))]
    /\ audioEffect
    /\ lastOp' = "setVolume"
    /\ effects' = <<>>
    /\ UNCHANGED <<persisted, loadedAt, species, mounted, engine, clock, audioMounted>>

toggleAmbient(on) ==
    /\ audioMounted
    /\ audio' = [audio EXCEPT !.ambientOn = on]
    /\ audioEffect
    /\ lastOp' = "toggleAmbient"
    /\ effects' = <<>>
    /\ UNCHANGED <<persisted, loadedAt, species, mounted, engine, clock, audioMounted>>

----------------------------------------------------------------------------
\* Specifications

Next ==
    \/ mountEffect
    \/ tick
    \/ onVisibility
    \/ Advance
    \/ start
    \/ pause
    \/ resume
    \/ reset
    \/ \E d \in DurationInputs : setDurations(d[1], d[2])

Spec == Init /\ [][Next]_vars

\* The application: the engine's controls next to the sound preferences,
\* both saving under the same key
AudioNext ==
    \/ mountEffect
    \/ audioMountEffect
    \/ start
    \/ pause
    \/ reset
    \/ \E d \in DurationInputs : setDurations(d[1], d[2])
    \/ mute
    \/ unmute
    \/ \E v \in VolumeInputs : setVolume(v)
    \/ \E on \in BOOLEAN : toggleAmbient(on)

AudioSpec == Init /\ [][AudioNext]_vars

\* The engine left alone: no user action, no visibility change.  React runs
\* the mount effects, the browser keeps calling a requested frame callback,
\* and time passes.
LiveNext ==
    \/ mountEffect
    \/ tick
    \/ Advance

LiveSpec ==
    /\ Init
    /\ [][LiveNext]_vars
    /\ WF_vars(mountEffect)
    /\ WF_vars(tick)
    /\ WF_vars(Advance)

----------------------------------------------------------------------------
\* Claims

\* the notifications among the effects of a step
Notes(e) == SelectSeq(e, LAMBDA x : x \in Modes)

\* C1: in every reachable state 0 <= remainingMs <= totalMs(mode), the total
\* of the current mode under the current durations.
C1_RemainingWithinTotal == 0 <= remainingMs /\ remainingMs <= totalMs

\* a frame callback is about to take remainingMs from a positive value to 0
Expires == ticking /\ remainingMs > 0 /\ delta >= remainingMs

\* C2: a session-complete event while mode = break yields mode = focus,
\* remainingMs = totalMs(Focus), isRunning = true and the same sessionCount.
C2_BreakToFocus ==
    [][(tick /\ Expires /\ mode = "break")
         => /\ mode' = "focus"
            /\ remainingMs' = minutesToMs(focusMinutes')
            /\ isRunning'
            /\ sessionCount' = sessionCount]_vars

\* C3: from mode = focus, running, remainingMs = r > 0, one tick with elapsed
\* time >= r yields mode = break, remainingMs = totalMs(Break), sessionCount
\* one higher and isRunning = true.
C3_FocusToBreak ==
    [][(tick /\ Expires /\ mode = "focus" /\ isRunning)
         => /\ mode' = "break"
            /\ remainingMs' = minutesToMs(breakMinutes')
            /\ sessionCount' = sessionCount + 1
            /\ isRunning']_vars

\* C4: every notification carries the kind of the interval that just ended,
\* the mode of the engine when it was emitted.
C4_KindIsEndedMode ==
    [][\A i \in DOMAIN Notes(effects') : Notes(effects')[i] = mode]_vars

\* C5 as stated: a tick that takes remainingMs from positive to 0 fires exactly
\* one session-complete event, before the next frame callback is requested;
\* any other tick fires none.
C5_OneEventBeforeNextFrameRequested ==
    [][tick => IF Expires
               THEN \E k \in Modes : effects' = <<k, "raf">>
               ELSE Notes(effects') = <<>>]_vars

\* C5 as amended: a tick that takes remainingMs from positive to 0 fires exactly
\* one session-complete event, in the same step as the request of the next
\* frame callback and so before that callback runs; any other tick fires none.
C5_OneEventPerExpiry ==
    [][tick => IF Expires
               THEN /\ Len(Notes(effects')) = 1
                    /\ Len(effects') = 2
                    /\ \E i \in DOMAIN effects' : effects'[i] = "raf"
               ELSE Notes(effects') = <<>>]_vars

\* C5: an expiring tick has fired its event after requesting the next frame
C5_Witness ==
    /\ lastOp = "tick"
    /\ \E k \in Modes : effects = <<"raf", k>>

\* C6: while the frame loop is active and time passes, a session-complete
\* transition that changes mode occurs again and again (until the model's
\* bound on sessionCount stops the ticks).
C6_CyclesForever ==
    \/ []<>(~ticking \/ sessionCount >= MaxSessions)
    \/ []<><<mode' # mode>>_vars

\* the record said running, with endAt and remainingMs present
RunningRecord ==
    /\ TruthyBool(persisted.isRunning)
    /\ persisted.endAt # None
    /\ persisted.remainingMs # None

\* C7: the remainingMs adopted at rehydration of a running record is never
\* greater than the record's remainingMs.
C7_NeverMoreThanStored ==
    (~mounted /\ RunningRecord) => remainingMs <= persisted.remainingMs[1]

\* C8: when max(0, endAt - now) <= the record's remainingMs, rehydration of a
\* running record adopts max(0, endAt - now): 0 when endAt <= now.
C8_AdoptsEstimate ==
    (~mounted /\ RunningRecord
       /\ Max(0, persisted.endAt[1] - loadedAt) <= persisted.remainingMs[1])
    => /\ remainingMs = Max(0, persisted.endAt[1] - loadedAt)
       /\ (persisted.endAt[1] <= loadedAt => remainingMs = 0)

\* C8: endAt = now + 5000 with remainingMs = 20000 has been rehydrated to 5000
C8_Witness ==
    /\ ~mounted
    /\ RunningRecord
    /\ persisted.endAt[1] = loadedAt + 5000
    /\ persisted.remainingMs[1] = 20000
    /\ remainingMs = 5000

\* C9: a running record whose reconciled remainingMs is positive leaves the
\* engine running with the frame loop active after construction, and a tick
\* that does not end the interval takes the elapsed time off remainingMs.
C9_AutoResume ==
    [][/\ (mountEffect /\ RunningRecord /\ remainingMs > 0)
            => /\ isRunning'
               /\ ticking'
               /\ rafId'
               /\ frames' = 1
               /\ lastPerf' = Some(0)
       /\ (tick /\ ticking /\ remainingMs > delta)
            => remainingMs' = remainingMs - delta]_vars

\* C9: after rehydration the countdown has gone on by itself
C9_Witness ==
    /\ lastOp = "tick"
    /\ RunningRecord
    /\ isRunning
    /\ ticking
    /\ mode = InitialMode(persisted)
    /\ sessionCount = InitialSessionCount(persisted)
    /\ remainingMs > 0
    /\ remainingMs < InitialRemainingMs(persisted, loadedAt)

\* the running interval ended while the page was closed
RehydratedZero ==
    /\ TruthyBool(persisted.isRunning)
    /\ persisted.endAt # None
    /\ InitialRemainingMs(persisted, loadedAt) = 0

\* C10: when rehydration yields remainingMs = 0, construction emits no
\* notification and keeps the persisted mode and sessionCount with
\* remainingMs = 0, and start() then begins a full-length interval of that mode.
C10_EndedNotReplayed ==
    [][/\ (mountEffect /\ RehydratedZero)
            => /\ remainingMs = 0
               /\ mode = Coalesce(persisted.mode, "focus")
               /\ sessionCount = Coalesce(persisted.sessionCount, 0)
               /\ effects = <<>>
               /\ effects' = <<>>
               /\ ~ticking'
               /\ remainingMs' = 0
               /\ mode' = mode
               /\ sessionCount' = sessionCount
       /\ (start /\ RehydratedZero /\ remainingMs = 0)
            => /\ mode' = Coalesce(persisted.mode, "focus")
               /\ remainingMs' = minutesToMs(IF mode' = "focus" THEN focusMinutes'
                                             ELSE breakMinutes')
               /\ remainingMs' > 0
               /\ sessionCount' = Coalesce(persisted.sessionCount, 0)
               /\ isRunning'
               /\ ticking'
               /\ Notes(effects') = <<>>]_vars

\* C10: start() after a rehydration to 0 has begun a full break
C10_Witness ==
    /\ lastOp = "start"
    /\ RehydratedZero
    /\ mode = "break"
    /\ remainingMs = totalMs
    /\ isRunning
    /\ ticking

----------------------------------------------------------------------------
\* Configuration

\* the duration a value is to be held at: the maximum above the range, the
\* minimum below it, the minimum when it is not a finite number
InRange(n, lo, hi) ==
    IF n[1] # "num" THEN lo
    ELSE IF n[2] > hi THEN hi
    ELSE IF n[2] < lo THEN lo
    ELSE n[2]

\* C11: focusMinutes is always in [5,120] and breakMinutes in [1,60]; a
\* persisted duration is brought into its range at load, and setDurations
\* stores the maximum for an input above the range, the minimum for one below
\* it and the minimum for an input that is not a finite number
C11_DurationsInRange ==
    /\ focusMinutes \in 5..120 /\ breakMinutes \in 1..60
    /\ persisted.focusMinutes # None
         => focusMinutes = InRange(Num(persisted.focusMinutes[1]), 5, 120)
    /\ persisted.breakMinutes # None
         => breakMinutes = InRange(Num(persisted.breakMinutes[1]), 1, 60)
    /\ [][/\ focusMinutes' \in 5..120 /\ breakMinutes' \in 1..60
          /\ \A d \in DurationInputs :
                setDurations(d[1], d[2])
                  => /\ focusMinutes' = InRange(d[1], 5, 120)
                     /\ breakMinutes' = InRange(d[2], 1, 60)]_vars

\* setDurations was given a focus below and a break above the range
C11_Witness ==
    /\ lastOp = "setDurations"
    /\ persisted.breakMinutes = None
    /\ focusMinutes = 5 /\ breakMinutes = 60

\* C12: setDurations(f, b) stores the durations brought into their ranges;
\* when isRunning is false remainingMs becomes the new total of the active
\* mode, and when isRunning is true remainingMs, mode and isRunning stay as
\* they were
C12_SetDurations ==
    [][\A d \in DurationInputs :
          setDurations(d[1], d[2])
            => /\ focusMinutes' = InRange(d[1], 5, 120)
               /\ breakMinutes' = InRange(d[2], 1, 60)
               /\ ~isRunning
                    => remainingMs' = 60000 * (IF mode = "focus" THEN focusMinutes'
                                                                 ELSE breakMinutes')
               /\ isRunning
                    => /\ remainingMs' = remainingMs
                       /\ mode' = mode
                       /\ isRunning' = isRunning]_vars

\* the durations were changed during a countdown, which went on from where
\* it was
C12_Witness ==
    /\ lastOp = "setDurations"
    /\ isRunning /\ ticking
    /\ focusMinutes # InitialFocusMinutes(persisted)
    /\ 0 < remainingMs /\ remainingMs < totalMs

\* C13: once setDurations has been applied, the interval that begins at the
\* next session-complete transition starts with remainingMs equal to the
\* total of the new mode under the updated durations
C13_NextSessionUsesNewDurations ==
    [][tick /\ Expires
         => remainingMs' = 60000 * (IF mode' = "focus" THEN focusMinutes'
                                                       ELSE breakMinutes')]_vars

----------------------------------------------------------------------------
\* Controls

\* C14: from every state reset() gives isRunning = false, a stopped frame
\* loop and remainingMs = the total of the current mode under the current
\* durations, and leaves mode and sessionCount as they were
C14_Reset ==
    [][reset
         => /\ ~isRunning'
            /\ ~ticking' /\ ~rafId' /\ frames' = 0
            /\ remainingMs' = 60000 * (IF mode = "focus" THEN focusMinutes
                                                         ELSE breakMinutes)
            /\ mode' = mode
            /\ sessionCount' = sessionCount]_vars

\* a running break under changed durations was reset
C14_Witness ==
    /\ lastOp = "reset"
    /\ mode = "break"
    /\ breakMinutes # InitialBreakMinutes(persisted)
    /\ remainingMs = minutesToMs(breakMinutes)
    /\ <<"cancel">> = effects

\* C15: start() from any state sets isRunning = true and activates the frame
\* loop; a remainingMs of 0 becomes the total of the current mode, a positive
\* one is left as it was; mode and sessionCount are unchanged
C15_Start ==
    [][start
         => /\ isRunning'
            /\ ticking' /\ rafId' /\ frames' > 0
            /\ remainingMs = 0
                 => remainingMs' = 60000 * (IF mode = "focus" THEN focusMinutes
                                                              ELSE breakMinutes)
            /\ remainingMs > 0 => remainingMs' = remainingMs
            /\ mode' = mode
            /\ sessionCount' = sessionCount]_vars

\* a countdown paused part of the way was started again
C15_Witness ==
    /\ lastOp = "start"
    /\ effects = <<"raf">>
    /\ isRunning /\ ticking
    /\ 0 < remainingMs /\ remainingMs < totalMs
    /\ sessionCount > InitialSessionCount(persisted)

C17_PauseResumeKeepState ==
    [][/\ (pause \/ resume)
            => UNCHANGED <<remainingMs, mode, sessionCount, focusMinutes,
                           breakMinutes, species>>
       /\ (~ticking /\ (Advance \/ onVisibility)) => UNCHANGED engine
       /\ (~ticking /\ resume) => lastPerf' = Some(0) /\ ticking' /\ frames' > 0
       /\ (tick /\ lastOp = "resume" /\ effects = <<"raf">>)
            => remainingMs' = remainingMs]_vars

\* a countdown paused part of the way was resumed
C17_Witness ==
    /\ lastOp = "resume"
    /\ effects = <<"raf">>
    /\ isRunning /\ ticking /\ lastPerf = Some(0)
    /\ 0 < remainingMs /\ remainingMs < totalMs
    /\ species = "bamboo"

\* C18: pause() is idempotent: a pause() right after a pause() leaves mode,
\* isRunning, remainingMs, sessionCount, the activity of the frame loop and
\* the stored record as the first one left them
C18_PauseIdempotent ==
    [][(lastOp = "pause" /\ pause)
         => UNCHANGED <<mode, isRunning, remainingMs, sessionCount, ticking,
                        rafId, frames, lastPerf, store>>]_vars

\* pause() acted on a countdown that was already paused
C18_Witness ==
    /\ lastOp = "pause"
    /\ effects = <<>>
    /\ ~isRunning /\ ~ticking
    /\ 0 < remainingMs /\ remainingMs < totalMs
    /\ store = saveState(Absent, stateRecord(focusMinutes, breakMinutes, FALSE, mode,
                                remainingMs, sessionCount, species, 0))

----------------------------------------------------------------------------
\* Persistence

\* C19: an engine constructed from the record the save effect wrote, with no
\* operation in between, has the same focusMinutes, breakMinutes, mode,
\* species and sessionCount and, when the saved state was not running, the
\* same remainingMs and isRunning = false
C19_RoundTrip ==
    (mounted /\ store # Unavailable) =>
        LET p == loadState(store)
        IN  /\ InitialFocusMinutes(p) = focusMinutes
            /\ InitialBreakMinutes(p) = breakMinutes
            /\ InitialMode(p) = mode
            /\ pickSpecies(p.species) = {species}
            /\ InitialSessionCount(p) = sessionCount
            /\ ~isRunning => /\ InitialRemainingMs(p, 0) = remainingMs
                             /\ InitialIsRunning(p) = FALSE

\* the record of a break paused part of the way, in the second session, with
\* durations set by the user and a species drawn at random
C19_Witness ==
    /\ mounted /\ ~isRunning
    /\ persisted = NoRecord
    /\ mode = "break" /\ sessionCount = 2
    /\ focusMinutes = 6 /\ breakMinutes = 2
    /\ species = "sapling"
    /\ 0 < remainingMs /\ remainingMs < totalMs
    /\ store = saveState(Absent, stateRecord(6, 2, FALSE, "break", remainingMs, 2, "sapling", 0))

\* C20: when nothing is stored or the stored text does not parse, the engine
\* starts with focusMinutes 25, breakMinutes 5, mode focus, isRunning false,
\* remainingMs 25 minutes and sessionCount 0; when a record parses but lacks
\* a field, that field takes its default (for remainingMs the full interval
\* of the mode in use) and the fields present are used
C20_DefaultsForMissing ==
    lastOp = "init" =>
        LET p == persisted
            running == p.isRunning = Some(TRUE) /\ p.endAt # None
        IN  /\ store \in {Absent, Malformed}
                 => /\ focusMinutes = 25 /\ breakMinutes = 5
                    /\ mode = "focus" /\ ~isRunning
                    /\ remainingMs = 25 * 60000
                    /\ sessionCount = 0
                    /\ species \in AllSpecies
            /\ focusMinutes = IF p.focusMinutes = None THEN 25
                              ELSE InRange(Num(p.focusMinutes[1]), 5, 120)
            /\ breakMinutes = IF p.breakMinutes = None THEN 5
                              ELSE InRange(Num(p.breakMinutes[1]), 1, 60)
            /\ mode = IF p.mode = None THEN "focus" ELSE p.mode[1]
            /\ isRunning = IF p.isRunning = None THEN FALSE ELSE p.isRunning[1]
            /\ sessionCount = IF p.sessionCount = None THEN 0 ELSE p.sessionCount[1]
            /\ species \in (IF p.species = None \/ p.species[1] \in UnknownSpecies
                            THEN AllSpecies ELSE {p.species[1]})
            /\ remainingMs =
                 IF running THEN Max(0, p.endAt[1] - loadedAt)
                 ELSE IF p.remainingMs = None
                      THEN 60000 * (IF mode = "focus" THEN focusMinutes
                                                      ELSE breakMinutes)
                      ELSE p.remainingMs[1]

\* the engine as constructed over text that does not parse
C20_Witness ==
    /\ lastOp = "init"
    /\ store = Malformed
    /\ focusMinutes = 25 /\ breakMinutes = 5 /\ mode = "focus"
    /\ ~isRunning /\ remainingMs = 1500000 /\ sessionCount = 0

\* what an operation does to the in-memory state, as a function of the
\* in-memory state before it and of its arguments alone
InMemoryStep ==
    /\ UNCHANGED <<persisted, loadedAt, species>>
    /\ \/ /\ lastOp' = "mount"
          /\ ~mounted /\ mounted'
          /\ UNCHANGED <<focusMinutes, breakMinutes, mode, remainingMs, sessionCount>>
          /\ IF persisted.isRunning = Some(TRUE) /\ persisted.endAt # None
                /\ remainingMs > 0
             THEN isRunning' /\ startTicking
             ELSE UNCHANGED <<isRunning, clock>>
       \/ /\ lastOp' = "tick"
          /\ UNCHANGED <<mounted, focusMinutes, breakMinutes, isRunning>>
          /\ IF ~ticking
             THEN /\ UNCHANGED <<mode, remainingMs, sessionCount, rafId, ticking, lastPerf>>
                  /\ frames' = frames - 1
             ELSE /\ ticking' /\ rafId' /\ frames' = frames /\ lastPerf' = Some(0)
                  /\ IF remainingMs > 0 /\ delta >= remainingMs
                     THEN /\ remainingMs' = handleSessionComplete.remainingMs
                          /\ mode' = handleSessionComplete.mode
                          /\ sessionCount' = handleSessionComplete.sessionCount
                     ELSE /\ remainingMs' = Max(0, remainingMs - delta)
                          /\ UNCHANGED <<mode, sessionCount>>
       \/ /\ lastOp' = "visibility"
          /\ UNCHANGED <<mounted, engine, rafId, frames, ticking>>
          /\ lastPerf' = Some(0)
       \/ /\ lastOp' = "advance"
          /\ UNCHANGED <<mounted, engine, rafId, frames, ticking>>
          /\ lastPerf' = Some(lastPerf[1] + MsPerMinute)
       \/ /\ lastOp' = "start"
          /\ UNCHANGED <<mounted, focusMinutes, breakMinutes, mode, sessionCount>>
          /\ isRunning' /\ startTicking
          /\ remainingMs' = IF remainingMs <= 0 THEN totalMs ELSE remainingMs
       \/ /\ lastOp' = "pause"
          /\ UNCHANGED <<mounted, focusMinutes, breakMinutes, mode, remainingMs,
                         sessionCount>>
          /\ ~isRunning' /\ stopTicking
       \/ /\ lastOp' = "resume"
          /\ UNCHANGED <<mounted, focusMinutes, breakMinutes, mode, remainingMs,
                         sessionCount>>
          /\ isRunning' /\ startTicking
       \/ /\ lastOp' = "reset"
          /\ UNCHANGED <<mounted, focusMinutes, breakMinutes, mode, sessionCount>>
          /\ ~isRunning' /\ stopTicking
          /\ remainingMs' = totalMs
       \/ /\ lastOp' = "setDurations"
          /\ UNCHANGED <<mounted, mode, isRunning, sessionCount, clock>>
          /\ \E d \in DurationInputs :
                /\ focusMinutes' = InRange(d[1], 5, 120)
                /\ breakMinutes' = InRange(d[2], 1, 60)
          /\ remainingMs' = IF isRunning THEN remainingMs ELSE totalMs'

\* C21: an engine whose storage fails on every access after construction
\* goes through the same in-memory states as one with working storage: every
\* operation's effect on the in-memory state is a function of that state
\* alone, whatever the store holds, and a failing store stays out of the way
C21_StorageFailureInvisible ==
    [][/\ InMemoryStep
       /\ store = Unavailable => store' = Unavailable]_vars

\* a timer rehydrated as running, with storage failing since, has counted a
\* session and been paused
C21_Witness ==
    /\ store = Unavailable
    /\ persisted.isRunning = Some(TRUE)
    /\ lastOp = "pause"
    /\ sessionCount > InitialSessionCount(persisted)
    /\ 0 < remainingMs /\ remainingMs < totalMs

\* C22: species is always one of fern, sapling, sprout and bamboo; it is the
\* persisted species when that is one of the four; no operation changes it,
\* and every record the engine writes carries it
C22_SpeciesFixed ==
    /\ [](/\ species \in {"fern", "sapling", "sprout", "bamboo"}
          /\ (/\ persisted.species # None
              /\ persisted.species[1] \in {"fern", "sapling", "sprout", "bamboo"})
               => species = persisted.species[1]
          /\ (mounted /\ store # Unavailable)
               => loadState(store).species = Some(species))
    /\ [][species' = species]_vars

\* the stored species is still there after a session-complete transition
C22_Witness ==
    /\ persisted.species = Some("bamboo")
    /\ species = "bamboo"
    /\ lastOp = "tick"
    /\ sessionCount > InitialSessionCount(persisted)
    /\ loadState(store).species = Some("bamboo")

----------------------------------------------------------------------------
\* The frame loop

\* C23: a visibility change takes the elapsed-time reference anew and
\* changes nothing else; the first tick after it subtracts only the time
\* passed since the event, so a tick right after the event subtracts nothing
\* and ends no session, however long the frames were suspended before it
C23_VisibilityReanchors ==
    [][/\ onVisibility
            => /\ lastPerf' = Some(0)
               /\ UNCHANGED engine
               /\ Notes(effects') = <<>>
       /\ (tick /\ ticking /\ lastOp = "visibility")
            => /\ UNCHANGED engine
               /\ Notes(effects') = <<>>
       /\ (tick /\ ticking /\ remainingMs > 0 /\ lastPerf # None
             /\ lastPerf[1] < remainingMs)
            => remainingMs' = remainingMs - lastPerf[1]]_vars

\* the page became visible during a countdown
C23_Witness ==
    /\ lastOp = "visibility"
    /\ isRunning /\ ticking /\ frames = 1
    /\ lastPerf = Some(0)
    /\ 0 < remainingMs /\ remainingMs < totalMs

----------------------------------------------------------------------------
\* The stored record

\* C24: once the save effect has run, the stored focusMinutes, breakMinutes,
\* mode, isRunning, remainingMs, sessionCount and species are the engine's,
\* endAt is null exactly when isRunning is false, and endAt is
\* savedAt + remainingMs when isRunning is true
C24_RecordMatchesEngine ==
    (mounted /\ store # Unavailable) =>
        LET r == loadState(store)
        IN  /\ r.focusMinutes = Some(focusMinutes)
            /\ r.breakMinutes = Some(breakMinutes)
            /\ r.mode = Some(mode)
            /\ r.isRunning = Some(isRunning)
            /\ r.remainingMs = Some(remainingMs)
            /\ r.sessionCount = Some(sessionCount)
            /\ r.species = Some(species)
            /\ r.savedAt # None
            /\ (r.endAt = None) <=> ~isRunning
            /\ isRunning => r.endAt[1] = r.savedAt[1] + remainingMs

\* the record of a countdown in its second session, written as the clock
\* moved on by a millisecond
C24_Witness ==
    /\ mounted /\ isRunning /\ lastOp = "tick"
    /\ sessionCount = 2
    /\ 0 < remainingMs /\ remainingMs < totalMs
    /\ loadState(store).remainingMs = Some(remainingMs)
    /\ loadState(store).endAt = Some(remainingMs - 1)
    /\ loadState(store).savedAt = Some(0)

\* C24 as amended: once the save effect has run, the stored engine fields
\* are the engine's, endAt is null exactly when isRunning is false, and when
\* isRunning is true endAt is remainingMs past a reading of the clock taken
\* just before the one savedAt holds, so that savedAt + remainingMs - endAt
\* is what the clock moved between the two readings
C24_RecordMatchesEngineUpToClock ==
    (mounted /\ store # Unavailable) =>
        LET r == loadState(store)
        IN  /\ r.focusMinutes = Some(focusMinutes)
            /\ r.breakMinutes = Some(breakMinutes)
            /\ r.mode = Some(mode)
            /\ r.isRunning = Some(isRunning)
            /\ r.remainingMs = Some(remainingMs)
            /\ r.sessionCount = Some(sessionCount)
            /\ r.species = Some(species)
            /\ r.savedAt # None
            /\ (r.endAt = None) <=> ~isRunning
            /\ isRunning => (r.savedAt[1] + remainingMs) - r.endAt[1] \in ClockSteps

\* the fields of the record the engine owns, and those useAudio owns
EngineOwned(r) ==
    <<r.focusMinutes, r.breakMinutes, r.mode, r.isRunning, r.remainingMs,
      r.endAt, r.sessionCount, r.species, r.savedAt>>

AudioOwned(r) == <<r.soundMuted, r.volume, r.ambientOn>>

\* a step in which useAudio's persist effect may write
AudioSave ==
    \/ audioMountEffect
    \/ mute
    \/ unmute
    \/ \E v \in VolumeInputs : setVolume(v)
    \/ \E on \in BOOLEAN : toggleAmbient(on)

\* C25: every write of the sound preferences leaves the engine's fields of
\* the stored record as they were, and every engine save leaves soundMuted,
\* volume and ambientOn as they were, however the two kinds of save are
\* interleaved
C25_FieldsKeptApart ==
    [][/\ AudioSave
            => EngineOwned(loadState(store')) = EngineOwned(loadState(store))
       /\ ~AudioSave
            => AudioOwned(loadState(store')) = AudioOwned(loadState(store))]_vars

\* the volume was set during a countdown of an engine that began with
\* nothing stored
C25_Witness ==
    /\ lastOp = "setVolume"
    /\ persisted = NoRecord
    /\ isRunning
    /\ audio.volume = 100 /\ audio.soundMuted
    /\ AudioOwned(loadState(store)) = <<Some(TRUE), Some(100), Some(audio.ambientOn)>>
    /\ loadState(store).isRunning = Some(TRUE)
    /\ loadState(store).focusMinutes = Some(6)

----------------------------------------------------------------------------
\* The frame loop and isRunning

\* C26: once the engine is mounted, after rehydration from any record
\* included, isRunning is true exactly when the frame loop is active (the
\* ticking flag set and a frame callback scheduled)
C26_RunningIffLoopActive ==
    mounted => (isRunning <=> (ticking /\ rafId /\ frames > 0))

\* C27: at most one frame callback is pending at any time; start() or
\* resume() while the loop is on requests no frame and leaves the
\* elapsed-time reference where it is, and a tick takes the reference anew
\* as it subtracts, so no stretch of time is subtracted twice
C27_OneLoop ==
    /\ [](frames <= 1 /\ (ticking => frames = 1 /\ rafId))
    /\ [][/\ ((start \/ resume) /\ ticking)
               => /\ UNCHANGED clock
                  /\ effects' = <<>>
          /\ (tick /\ ticking) => lastPerf' = Some(0) /\ frames' = 1]_vars

\* start() was called a minute or more into a running frame loop
C27_Witness ==
    /\ lastOp = "start"
    /\ effects = <<>>
    /\ isRunning /\ ticking /\ frames = 1
    /\ lastPerf # None /\ lastPerf[1] >= 60000

====
